---- MODULE Spec2Model ----
(***************************************************************************)
(* Scoring and aggregation engine of the communication-health survey.      *)
(*                                                                         *)
(*   SpecSurvey : the respondent-facing survey page (SurveyPage): question *)
(*                loading, answering, going back, scoring and saving.      *)
(***************************************************************************)
EXTENDS Integers, Sequences, FiniteSets, TLC

NULL == "null"

(***************************************************************************)
(* JavaScript number arithmetic.  Scores are divided and multiplied as     *)
(* IEEE-754 binary64 values, so a quotient is rounded to 53 significant    *)
(* bits before it is multiplied.  A positive binary64 value is kept as     *)
(* [sig, exp] and stands for sig * 2^(exp - 52): sig is the 53-bit         *)
(* significand written as six base-512 digits, most significant first      *)
(* (128 <= sig[1] < 256), and exp is the power of two of its leading bit.  *)
(***************************************************************************)
FloatZero == [sig |-> <<>>, exp |-> 0]

\* the e with 2^e <= a/b < 2^(e+1), for a, b > 0
RECURSIVE LeadExp(_, _)
LeadExp(a, b) ==
  IF a >= 2 * b THEN LeadExp(a, 2 * b) + 1
  ELSE IF a < b THEN LeadExp(2 * a, b) - 1
  ELSE 0

RECURSIVE Pow2(_)
Pow2(n) == IF n = 0 THEN 1 ELSE 2 * Pow2(n - 1)

RECURSIVE BitLength(_)
BitLength(k) == IF k = 0 THEN 0 ELSE 1 + BitLength(k \div 2)

\* n further base-512 digits of the quotient r/d (r < d), and the remainder
RECURSIVE LongDivision(_, _, _, _)
LongDivision(r, d, n, acc) ==
  IF n = 0 THEN [digits |-> acc, rem |-> r]
  ELSE LongDivision((r * 512) % d, d, n - 1, Append(acc, (r * 512) \div d))

\* digits + unit * 512^(Len - pos) on a base-512 digit string whose first
\* digit has room for the carry
AddAt(digits, pos, unit) ==
  LET j == IF digits[pos] + unit < 512 THEN pos
           ELSE CHOOSE i \in 1..(pos - 1) :
                  digits[i] < 511 /\ \A k \in (i + 1)..(pos - 1) : digits[k] = 511
  IN [k \in 1..Len(digits) |->
        IF k < j \/ k > pos THEN digits[k]
        ELSE IF j = pos THEN digits[k] + unit
        ELSE IF k = j THEN digits[k] + 1
        ELSE IF k = pos THEN digits[k] + unit - 512
        ELSE 0]

\* a significand that rounding carried up to 2^53 is 2^52 one exponent higher
Normalize(sig, exp) ==
  IF sig[1] >= 256 THEN [sig |-> <<128, 0, 0, 0, 0, 0>>, exp |-> exp + 1]
  ELSE [sig |-> sig, exp |-> exp]

\* a / b on binary64 (round to nearest, ties to even), for integers
\* a >= 0, b > 0
FloatDiv(a, b) ==
  IF a = 0 THEN FloatZero
  ELSE
    LET e  == LeadExp(a, b)
        aa == IF e < 0 THEN a * Pow2(0 - e) ELSE a
        bb == IF e > 0 THEN b * Pow2(e) ELSE b
        q  == LongDivision((aa * 128) % bb, bb, 5, <<(aa * 128) \div bb>>)
        up == 2 * q.rem > bb \/ (2 * q.rem = bb /\ q.digits[6] % 2 = 1)
    IN IF up THEN Normalize(AddAt(q.digits, 6, 1), e)
       ELSE [sig |-> q.digits, exp |-> e]

\* digits * k as seven base-512 digits, for 0 < k < 512
RECURSIVE MulDigits(_, _, _, _, _)
MulDigits(digits, k, i, carry, acc) ==
  IF i = 0 THEN <<carry>> \o acc
  ELSE MulDigits(digits, k, i - 1, (digits[i] * k + carry) \div 512,
                 <<(digits[i] * k + carry) % 512>> \o acc)

\* x * k on binary64 (round to nearest, ties to even), for an integer
\* 0 < k < 512: the exact product has 53 + s bits, of which the low s are
\* rounded away
FloatMul(x, k) ==
  IF x = FloatZero THEN FloatZero
  ELSE
    LET prod  == MulDigits(x.sig, k, 6, 0, <<>>)
        s     == BitLength(prod[1] * 512 + prod[2]) - 8
        low   == prod[7] % Pow2(s)
        last  == IF s = 9 THEN prod[6] % 2 ELSE (prod[7] \div Pow2(s)) % 2
        up    == s > 0 /\ (2 * low > Pow2(s) \/ (2 * low = Pow2(s) /\ last = 1))
        cut   == [prod EXCEPT ![7] = prod[7] - low]
        round == IF ~up THEN cut
                 ELSE IF s = 9 THEN AddAt(cut, 6, 1)
                 ELSE AddAt(cut, 7, Pow2(s))
        shift == [i \in 1..6 |->
                    (round[i] % Pow2(s)) * Pow2(9 - s) + round[i + 1] \div Pow2(s)]
    IN Normalize(shift, x.exp + s)

\* Math.round of a binary64 in [0, 256): the integer part, plus one when the
\* first fraction bit is set
MathRound(x) ==
  IF x = FloatZero \/ x.exp < 0 - 1 THEN 0
  ELSE IF x.exp = 0 - 1 THEN 1
  ELSE x.sig[1] \div Pow2(7 - x.exp)
       + (IF x.exp = 7 THEN x.sig[2] \div 256
          ELSE (x.sig[1] \div Pow2(6 - x.exp)) % 2)

\* Math.round(n / d) for integers n >= 0, d > 0.  A single division cannot
\* cross a half: n/d is either exactly k + 1/2 or at least 1/(2d) away.
RoundDiv(n, d) == (2 * n + d) \div (2 * d)

(***************************************************************************)
(* Survey configuration: the active rows of ttc_questions, in sort order.  *)
(* A row's id is its position in the table.                                *)
(***************************************************************************)
MaxQuestions == 2

ScaleMax == 4

OptionValues == 1..ScaleMax

SurveySectionKeys == {"speaking_up", "leadership"}

QuestionTypes == {"scale", "open"}

Weights == {1, 3, 7}

OpenTexts == {"", "text"}

QuestionRows ==
  [section_key : SurveySectionKeys, question_type : QuestionTypes, weight : Weights]

QuestionTables ==
  UNION {[1..n -> QuestionRows] : n \in 1..MaxQuestions}

Question(table, i) ==
  [id |-> i, section_key |-> table[i].section_key,
   question_type |-> table[i].question_type, weight |-> table[i].weight]

Range(seq) == {seq[i] : i \in DOMAIN seq}

\* the sum of the first n entries of a list
RECURSIVE Sum(_, _)
Sum(scores, n) == IF n = 0 THEN 0 ELSE Sum(scores, n - 1) + scores[n]

EmptyMap == [k \in {} |-> 0]

\* {...map, [key]: value}
Put(map, key, value) ==
  [k \in DOMAIN map \cup {key} |-> IF k = key THEN value ELSE map[k]]

\* a property read used as a condition: a number that is present and not 0,
\* a string that is present and not ''
TruthyNumber(map, key) == key \in DOMAIN map /\ map[key] # 0

TruthyString(map, key) == key \in DOMAIN map /\ map[key] # ""

VARIABLES
  ttc_questions,        \* storage: active question rows, in sort order
  ttc_responses,        \* storage: the response rows, oldest first
  initPc,               \* position of the mount effect init(): "pending" | "done"
  loading, step, sections, currentSectionIndex, currentQuestionIndex,
  answers, openResponses, currentOpenResponse, submitting,
  insertPending,        \* the insert submitSurvey awaits: <<row>>, or <<>>
  route,                \* "survey" | "/thank-you" | "/results/<id>"
  responseId,           \* the page that stores the row at the start: <<id>>, or <<>>
  calls                 \* that page's handlers suspended at an await, oldest first

surveyVars ==
  <<ttc_questions, initPc, loading, step, sections, currentSectionIndex,
    currentQuestionIndex, answers, openResponses, currentOpenResponse,
    submitting, insertPending, route, responseId, calls>>

VARIABLES
  adminPage,            \* the admin page mounted: "none" | "analytics" | "dashboard" | "orgchart"
  fetchPc,              \* position of the page's mount effect: "pending" | "done"
  responses, loadingAdmin, companyFilter,
  effectPending,        \* analytics: the aggregation effect is due to run
  calcInput,            \* filteredResponses as the last calculateAggregates read it
  deptSectionData, roleSectionData, deptRoleData, problemAreas, deptGaps,
  speakingUpAlerts, perceptionGap,
  companies, departments, stats     \* dashboard state

adminVars ==
  <<adminPage, fetchPc, responses, loadingAdmin, companyFilter, effectPending,
    calcInput, deptSectionData, roleSectionData, deptRoleData, problemAreas,
    deptGaps, speakingUpAlerts, perceptionGap, companies, departments, stats>>

VARIABLES
  stored,               \* the stored value handed to toPercentage
  normalized,           \* <<>> before the call, then <<call, what it returned>>
  renormalized          \* <<>>, then <<toPercentage of the result as {percentage}>>

normalizerVars == <<stored, normalized, renormalized>>

vars == <<surveyVars, ttc_responses, adminVars, normalizerVars>>

\* state of an admin page before its mount effect has fetched anything
AdminUnloaded ==
  /\ fetchPc = "pending"
  /\ responses = <<>>
  /\ loadingAdmin = TRUE
  /\ companyFilter = ""
  /\ effectPending = FALSE
  /\ calcInput = <<>>
  /\ deptSectionData = EmptyMap
  /\ roleSectionData = EmptyMap
  /\ deptRoleData = EmptyMap
  /\ problemAreas = <<>>
  /\ deptGaps = <<>>
  /\ speakingUpAlerts = <<>>
  /\ perceptionGap = <<>>
  /\ companies = <<>>
  /\ departments = <<>>
  /\ stats = [total |-> 0, completed |-> 0, avgScore |-> 0]

NoAdminPage == adminPage = "none" /\ AdminUnloaded

NoNormalizerCall ==
  /\ stored = [type |-> "undefined", quarters |-> 0, percentage |-> 0]
  /\ normalized = <<>>
  /\ renormalized = <<>>

\* sections built by init(): one per section_key, in order of first
\* appearance, each with its questions in table order
RECURSIVE GroupSections(_, _, _)
GroupSections(table, i, acc) ==
  IF i > Len(table) THEN acc
  ELSE
    LET q == Question(table, i)
    IN IF \E j \in 1..Len(acc) : acc[j].key = q.section_key
       THEN GroupSections(table, i + 1,
              [j \in 1..Len(acc) |->
                 IF acc[j].key = q.section_key
                 THEN [acc[j] EXCEPT !.questions = Append(@, q)]
                 ELSE acc[j]])
       ELSE GroupSections(table, i + 1,
              Append(acc, [key |-> q.section_key, questions |-> <<q>>]))

\* currentSection and currentQuestion of the render (0-based indices)
HasCurrentQuestion ==
  /\ currentSectionIndex < Len(sections)
  /\ currentQuestionIndex < Len(sections[currentSectionIndex + 1].questions)

currentSection == sections[currentSectionIndex + 1]

currentQuestion == currentSection.questions[currentQuestionIndex + 1]

InitSurvey ==
  /\ ttc_questions \in QuestionTables
  /\ ttc_responses = <<>>
  /\ initPc = "pending"
  /\ loading = TRUE
  /\ step = "intro"
  /\ sections = <<>>
  /\ currentSectionIndex = 0
  /\ currentQuestionIndex = 0
  /\ answers = EmptyMap
  /\ openResponses = EmptyMap
  /\ currentOpenResponse = ""
  /\ submitting = FALSE
  /\ insertPending = <<>>
  /\ route = "survey"
  /\ responseId = <<>>
  /\ calls = <<>>
  /\ NoAdminPage
  /\ NoNormalizerCall

\* the mount effect: load the active questions and group them
init ==
  /\ initPc = "pending"
  /\ initPc' = "done"
  /\ \/ /\ sections' = GroupSections(ttc_questions, 1, <<>>)
        /\ loading' = FALSE
     \/ UNCHANGED <<sections, loading>>       \* error || !questions: return
  /\ UNCHANGED <<adminVars, normalizerVars>>
  /\ UNCHANGED <<responseId, calls>>
  /\ UNCHANGED <<ttc_questions, ttc_responses, step, currentSectionIndex,
                 currentQuestionIndex, answers, openResponses,
                 currentOpenResponse, submitting, insertPending, route>>

startSurvey ==
  /\ ~loading /\ step = "intro" /\ route = "survey"
  /\ step' = "survey"
  /\ UNCHANGED <<adminVars, normalizerVars>>
  /\ UNCHANGED <<responseId, calls>>
  /\ UNCHANGED <<ttc_questions, ttc_responses, initPc, loading, sections,
                 currentSectionIndex, currentQuestionIndex, answers,
                 openResponses, currentOpenResponse, submitting,
                 insertPending, route>>

\* the question form is on screen
SurveyShown ==
  ~loading /\ step = "survey" /\ ~submitting /\ route = "survey"

(***************************************************************************)
(* Response Scorer: submitSurvey.                                          *)
(***************************************************************************)
\* Math.round((total / max) * 100)
Percentage(total, max) == MathRound(FloatMul(FloatDiv(total, max), 100))

\* the inner loop over one section's questions: sectionTotal and sectionMax
RECURSIVE ScoreQuestions(_, _, _, _)
ScoreQuestions(questions, finalAnswers, i, acc) ==
  IF i > Len(questions) THEN acc
  ELSE
    LET q == questions[i]
    IN IF q.question_type = "scale" /\ TruthyNumber(finalAnswers, q.id)
       THEN ScoreQuestions(questions, finalAnswers, i + 1,
              [total |-> acc.total + finalAnswers[q.id] * q.weight,
               max   |-> acc.max + ScaleMax * q.weight])
       ELSE ScoreQuestions(questions, finalAnswers, i + 1, acc)

\* EmitSection without its sectionMax > 0 test: every section gets an entry,
\* with percentage 0 when nothing was answered
EmitSectionAlways(acc, section, st) ==
  [sectionScores |->
     Put(acc.sectionScores, section.key,
         [score |-> st.total, max |-> st.max,
          percentage |-> IF st.max > 0 THEN Percentage(st.total, st.max) ELSE 0]),
   totalScore |-> acc.totalScore + st.total,
   maxScore   |-> acc.maxScore + st.max]

\* the end of one section's iteration: the entry is written, and the section
\* counted in the overall sums, only when sectionMax > 0
EmitSection(acc, section, st) ==
  IF st.max > 0
  THEN [sectionScores |->
          Put(acc.sectionScores, section.key,
              [score |-> st.total, max |-> st.max,
               percentage |-> Percentage(st.total, st.max)]),
        totalScore |-> acc.totalScore + st.total,
        maxScore   |-> acc.maxScore + st.max]
  ELSE acc

\* the outer loop over the sections
RECURSIVE ScoreSections(_, _, _, _)
ScoreSections(secs, finalAnswers, i, acc) ==
  IF i > Len(secs) THEN acc
  ELSE ScoreSections(secs, finalAnswers, i + 1,
         EmitSection(acc, secs[i],
           ScoreQuestions(secs[i].questions, finalAnswers, 1,
                          [total |-> 0, max |-> 0])))

\* the row submitSurvey inserts (respondent identity fields left out)
ResponseRow(finalAnswers, finalOpenResponses) ==
  LET sc == ScoreSections(sections, finalAnswers, 1,
              [sectionScores |-> EmptyMap, totalScore |-> 0, maxScore |-> 0])
  IN [answers        |-> finalAnswers,
      open_responses |-> finalOpenResponses,
      section_scores |-> sc.sectionScores,
      overall_score  |-> IF sc.maxScore > 0
                         THEN Percentage(sc.totalScore, sc.maxScore) ELSE 0,
      completed_at   |-> "now"]

\* submitSurvey up to its await: the page shows the saving spinner and the
\* insert is in flight
submitSurvey(finalAnswers, finalOpenResponses) ==
  /\ submitting' = TRUE
  /\ insertPending' = <<ResponseRow(finalAnswers, finalOpenResponses)>>

\* moveToNextQuestion; openText is the value currentOpenResponse has when no
\* stored response of the next question replaces it
moveToNextQuestion(currentAnswers, currentOpenResponses, openText) ==
  LET nextOpen(nextQ) ==
        IF nextQ.question_type = "open" /\ TruthyString(currentOpenResponses, nextQ.id)
        THEN currentOpenResponses[nextQ.id] ELSE openText
  IN IF currentQuestionIndex < Len(currentSection.questions) - 1
     THEN /\ currentQuestionIndex' = currentQuestionIndex + 1
          /\ currentOpenResponse' =
               nextOpen(currentSection.questions[currentQuestionIndex + 2])
          /\ UNCHANGED <<currentSectionIndex, submitting, insertPending>>
     ELSE IF currentSectionIndex < Len(sections) - 1
     THEN /\ currentSectionIndex' = currentSectionIndex + 1
          /\ currentQuestionIndex' = 0
          /\ currentOpenResponse' =
               nextOpen(sections[currentSectionIndex + 2].questions[1])
          /\ UNCHANGED <<submitting, insertPending>>
     ELSE /\ submitSurvey(currentAnswers, currentOpenResponses)
          /\ currentOpenResponse' = openText
          /\ UNCHANGED <<currentSectionIndex, currentQuestionIndex>>

handleScaleAnswer(value) ==
  /\ SurveyShown /\ HasCurrentQuestion
  /\ currentQuestion.question_type # "open"
  /\ LET newAnswers == Put(answers, currentQuestion.id, value)
     IN /\ answers' = newAnswers
        /\ moveToNextQuestion(newAnswers, openResponses, currentOpenResponse)
  /\ UNCHANGED <<adminVars, normalizerVars>>
  /\ UNCHANGED <<responseId, calls>>
  /\ UNCHANGED <<ttc_questions, ttc_responses, initPc, loading, step, sections,
                 openResponses, route>>

\* typing into the textarea of an open question
setCurrentOpenResponse(text) ==
  /\ SurveyShown /\ HasCurrentQuestion
  /\ currentQuestion.question_type = "open"
  /\ currentOpenResponse' = text
  /\ UNCHANGED <<adminVars, normalizerVars>>
  /\ UNCHANGED <<responseId, calls>>
  /\ UNCHANGED <<ttc_questions, ttc_responses, initPc, loading, step, sections,
                 currentSectionIndex, currentQuestionIndex, answers,
                 openResponses, submitting, insertPending, route>>

handleOpenAnswer ==
  /\ SurveyShown /\ HasCurrentQuestion
  /\ currentQuestion.question_type = "open"
  /\ LET newOpenResponses == Put(openResponses, currentQuestion.id, currentOpenResponse)
     IN /\ openResponses' = newOpenResponses
        /\ moveToNextQuestion(answers, newOpenResponses, "")
  /\ UNCHANGED <<adminVars, normalizerVars>>
  /\ UNCHANGED <<responseId, calls>>
  /\ UNCHANGED <<ttc_questions, ttc_responses, initPc, loading, step, sections,
                 answers, route>>

goBack ==
  /\ SurveyShown /\ HasCurrentQuestion
  /\ currentSectionIndex > 0 \/ currentQuestionIndex > 0
  /\ LET prevOpen(prevQ) ==
           IF prevQ.question_type = "open" /\ TruthyString(openResponses, prevQ.id)
           THEN openResponses[prevQ.id] ELSE ""
     IN IF currentQuestionIndex > 0
        THEN /\ currentQuestionIndex' = currentQuestionIndex - 1
             /\ currentOpenResponse' =
                  prevOpen(currentSection.questions[currentQuestionIndex])
             /\ UNCHANGED currentSectionIndex
        ELSE LET prevSection == sections[currentSectionIndex] IN
             /\ currentSectionIndex' = currentSectionIndex - 1
             /\ currentQuestionIndex' = Len(prevSection.questions) - 1
             /\ currentOpenResponse' =
                  prevOpen(prevSection.questions[Len(prevSection.questions)])
  /\ UNCHANGED <<adminVars, normalizerVars>>
  /\ UNCHANGED <<responseId, calls>>
  /\ UNCHANGED <<ttc_questions, ttc_responses, initPc, loading, step, sections,
                 answers, openResponses, submitting, insertPending, route>>

\* the insert succeeded: the row is stored and the page leaves for /thank-you
submitSurveySaved ==
  /\ insertPending # <<>>
  /\ ttc_responses' = Append(ttc_responses, insertPending[1])
  /\ insertPending' = <<>>
  /\ route' = "/thank-you"
  /\ UNCHANGED <<adminVars, normalizerVars>>
  /\ UNCHANGED <<responseId, calls>>
  /\ UNCHANGED <<ttc_questions, initPc, loading, step, sections,
                 currentSectionIndex, currentQuestionIndex, answers,
                 openResponses, currentOpenResponse, submitting>>

\* the error branch without its return: the page goes on to /thank-you
submitSurveyFailedNoReturn ==
  /\ insertPending # <<>>
  /\ insertPending' = <<>>
  /\ submitting' = FALSE
  /\ route' = "/thank-you"
  /\ UNCHANGED <<adminVars, normalizerVars>>
  /\ UNCHANGED <<responseId, calls>>
  /\ UNCHANGED <<ttc_questions, ttc_responses, initPc, loading, step, sections,
                 currentSectionIndex, currentQuestionIndex, answers,
                 openResponses, currentOpenResponse>>

\* the insert returned an error: alert, setSubmitting(false), return
submitSurveyFailed ==
  /\ insertPending # <<>>
  /\ insertPending' = <<>>
  /\ submitting' = FALSE
  /\ UNCHANGED <<adminVars, normalizerVars>>
  /\ UNCHANGED <<responseId, calls>>
  /\ UNCHANGED <<ttc_questions, ttc_responses, initPc, loading, step, sections,
                 currentSectionIndex, currentQuestionIndex, answers,
                 openResponses, currentOpenResponse, route>>

NextSurvey ==
  \/ init
  \/ startSurvey
  \/ \E value \in OptionValues : handleScaleAnswer(value)
  \/ \E text \in OpenTexts : setCurrentOpenResponse(text)
  \/ handleOpenAnswer
  \/ goBack
  \/ submitSurveySaved
  \/ submitSurveyFailed

SpecSurvey == InitSurvey /\ [][NextSurvey]_vars

(***************************************************************************)
(* The survey page's other revision.  It inserts the response row when the *)
(* respondent starts, updates the row's answers after every answer and     *)
(* completes it with a last update.  Its handlers are async: each storage  *)
(* call is awaited, the page stays responsive meanwhile, and the handler   *)
(* resumes with the state of the render it was called from.  Storage calls *)
(* of different handlers are separate requests and return in any order.    *)
(***************************************************************************)
MaxSectionQuestions == 2

MaxCalls == 2

\* the options clicked: what is answered does not steer this revision's flow
PickedValues == {ScaleMax}

\* the questions of this revision: scale questions of weight 1, those of the
\* first section followed by those of the second, if there is one
StoredQuestionTables ==
  {[i \in 1..(m + n) |->
      [section_key   |-> IF i <= m THEN "speaking_up" ELSE "leadership",
       question_type |-> "scale",
       weight        |-> 1]] : m \in 1..MaxSectionQuestions,
                               n \in 0..MaxSectionQuestions}

InitSurveyStored ==
  /\ ttc_questions \in StoredQuestionTables
  /\ ttc_responses = <<>>
  /\ initPc = "pending"
  /\ loading = TRUE
  /\ step = "intro"
  /\ sections = <<>>
  /\ currentSectionIndex = 0
  /\ currentQuestionIndex = 0
  /\ answers = EmptyMap
  /\ openResponses = EmptyMap
  /\ currentOpenResponse = ""
  /\ submitting = FALSE
  /\ insertPending = <<>>
  /\ route = "survey"
  /\ responseId = <<>>
  /\ calls = <<>>
  /\ NoAdminPage
  /\ NoNormalizerCall

\* a handler suspended at its await, with what its closure holds
Call(handler, id, newAnswers, sectionIndex, questionIndex) ==
  [handler |-> handler, responseId |-> id, newAnswers |-> newAnswers,
   currentSectionIndex |-> sectionIndex, currentQuestionIndex |-> questionIndex]

\* the calls left when call k has returned and its handler has finished
Returned(k) == [i \in 1..(Len(calls) - 1) |-> IF i < k THEN calls[i] ELSE calls[i + 1]]

\* the row startSurvey inserts; the id of a row is its position in the table,
\* and its overall score is <<>> (null) until <<score>> is written
StartedRow ==
  [answers        |-> EmptyMap,
   open_responses |-> EmptyMap,
   section_scores |-> EmptyMap,
   overall_score  |-> <<>>,
   completed_at   |-> NULL]

\* .update(fields).eq('id', id)
Update(table, id, fields) ==
  [i \in DOMAIN table |->
     IF <<i>> = id
     THEN [f \in DOMAIN table[i] |-> IF f \in DOMAIN fields THEN fields[f] ELSE table[i][f]]
     ELSE table[i]]

\* startSurvey up to its await: the Start button is still on screen while the
\* insert is in flight
startSurveyStored ==
  /\ ~loading /\ step = "intro" /\ route = "survey"
  /\ Len(calls) < MaxCalls
  /\ calls' = Append(calls, Call("startSurvey", <<>>, EmptyMap, 0, 0))
  /\ UNCHANGED <<adminVars, normalizerVars, ttc_questions, ttc_responses, initPc,
                 loading, step, sections, currentSectionIndex,
                 currentQuestionIndex, answers, openResponses,
                 currentOpenResponse, submitting, insertPending, route,
                 responseId>>

\* startSurvey after its await: with the inserted row, or with none
startSurveyResumed(k, inserted) ==
  /\ k \in DOMAIN calls /\ calls[k].handler = "startSurvey"
  /\ calls' = Returned(k)
  /\ IF inserted
     THEN /\ ttc_responses' = Append(ttc_responses, StartedRow)
          /\ responseId' = <<Len(ttc_responses) + 1>>
          /\ step' = "survey"
     ELSE UNCHANGED <<ttc_responses, responseId, step>>
  /\ UNCHANGED <<adminVars, normalizerVars, ttc_questions, initPc, loading,
                 sections, currentSectionIndex, currentQuestionIndex, answers,
                 openResponses, currentOpenResponse, submitting, insertPending,
                 route>>

\* the question form of this revision is on screen; the option buttons are
\* rendered when there is a current question
StoredSurveyShown ==
  ~loading /\ step = "survey" /\ ~submitting /\ route = "survey"

\* handleAnswer up to its first await
handleAnswer(value) ==
  /\ StoredSurveyShown /\ HasCurrentQuestion
  /\ responseId # <<>>
  /\ Len(calls) < MaxCalls
  /\ LET newAnswers == Put(answers, currentQuestion.id, value)
     IN /\ answers' = newAnswers
        /\ calls' = Append(calls, Call("handleAnswer", responseId, newAnswers,
                                       currentSectionIndex, currentQuestionIndex))
  /\ UNCHANGED <<adminVars, normalizerVars, ttc_questions, ttc_responses, initPc,
                 loading, step, sections, currentSectionIndex,
                 currentQuestionIndex, openResponses, currentOpenResponse,
                 submitting, insertPending, route, responseId>>

\* the scores submitSurvey computes in this revision: every section gets an
\* entry, and a question counts when it has an answer
StoredSectionScore(section, finalAnswers) ==
  LET answered == {i \in DOMAIN section.questions :
                     TruthyNumber(finalAnswers, section.questions[i].id)}
      sectionTotal == Sum([i \in DOMAIN section.questions |->
                             IF i \in answered
                             THEN finalAnswers[section.questions[i].id]
                                    * section.questions[i].weight
                             ELSE 0], Len(section.questions))
      sectionMax == Sum([i \in DOMAIN section.questions |->
                           IF i \in answered
                           THEN ScaleMax * section.questions[i].weight ELSE 0],
                        Len(section.questions))
  IN [score |-> sectionTotal, max |-> sectionMax,
      percentage |-> IF sectionMax > 0 THEN Percentage(sectionTotal, sectionMax)
                     ELSE 0]

\* the fields of submitSurvey's update
CompletedFields(finalAnswers) ==
  LET scores == [i \in DOMAIN sections |-> StoredSectionScore(sections[i], finalAnswers)]
      totalScore == Sum([i \in DOMAIN sections |-> scores[i].score], Len(sections))
      maxScore == Sum([i \in DOMAIN sections |-> scores[i].max], Len(sections))
  IN [answers        |-> finalAnswers,
      section_scores |-> [key \in {sections[i].key : i \in DOMAIN sections} |->
                            scores[CHOOSE i \in DOMAIN sections : sections[i].key = key]],
      overall_score  |-> <<IF maxScore > 0 THEN Percentage(totalScore, maxScore)
                           ELSE 0>>,
      completed_at   |-> "now"]

\* handleAnswer after its first await: the answers update is applied and has
\* returned.  The handler moves on from the position of the render it was
\* called from, or calls submitSurvey, which runs up to its own await.
handleAnswerResumed(k) ==
  /\ k \in DOMAIN calls /\ calls[k].handler = "handleAnswer"
  /\ ttc_responses' =
       Update(ttc_responses, calls[k].responseId, [answers |-> calls[k].newAnswers])
  /\ LET section == sections[calls[k].currentSectionIndex + 1]
     IN IF calls[k].currentQuestionIndex < Len(section.questions) - 1
        THEN /\ currentQuestionIndex' = calls[k].currentQuestionIndex + 1
             /\ calls' = Returned(k)
             /\ UNCHANGED <<currentSectionIndex, submitting>>
        ELSE IF calls[k].currentSectionIndex < Len(sections) - 1
        THEN /\ currentSectionIndex' = calls[k].currentSectionIndex + 1
             /\ currentQuestionIndex' = 0
             /\ calls' = Returned(k)
             /\ UNCHANGED submitting
        ELSE /\ submitting' = TRUE
             /\ calls' = [calls EXCEPT ![k].handler = "submitSurvey"]
             /\ UNCHANGED <<currentSectionIndex, currentQuestionIndex>>
  /\ UNCHANGED <<adminVars, normalizerVars, ttc_questions, initPc, loading, step,
                 sections, answers, openResponses, currentOpenResponse,
                 insertPending, route, responseId>>

\* submitSurvey after its await: the completing update is applied and has
\* returned, and the page leaves for the results of the response
submitSurveyResumed(k) ==
  /\ k \in DOMAIN calls /\ calls[k].handler = "submitSurvey"
  /\ ttc_responses' =
       Update(ttc_responses, calls[k].responseId, CompletedFields(calls[k].newAnswers))
  /\ route' = "/results/" \o ToString(calls[k].responseId[1])
  /\ calls' = Returned(k)
  /\ UNCHANGED <<adminVars, normalizerVars, ttc_questions, initPc, loading, step,
                 sections, currentSectionIndex, currentQuestionIndex, answers,
                 openResponses, currentOpenResponse, submitting, insertPending,
                 responseId>>

\* goBack of this revision; the button is rendered off the first question
goBackStored ==
  /\ StoredSurveyShown
  /\ currentSectionIndex > 0 \/ currentQuestionIndex > 0
  /\ IF currentQuestionIndex > 0
     THEN /\ currentQuestionIndex' = currentQuestionIndex - 1
          /\ UNCHANGED currentSectionIndex
     ELSE /\ currentSectionIndex' = currentSectionIndex - 1
          /\ currentQuestionIndex' = Len(sections[currentSectionIndex].questions) - 1
  /\ UNCHANGED <<adminVars, normalizerVars, ttc_questions, ttc_responses, initPc,
                 loading, step, sections, answers, openResponses,
                 currentOpenResponse, submitting, insertPending, route,
                 responseId, calls>>

NextSurveyStored ==
  \/ init
  \/ startSurveyStored
  \/ \E k \in 1..MaxCalls : \E inserted \in BOOLEAN : startSurveyResumed(k, inserted)
  \/ \E value \in PickedValues : handleAnswer(value)
  \/ \E k \in 1..MaxCalls : handleAnswerResumed(k)
  \/ \E k \in 1..MaxCalls : submitSurveyResumed(k)
  \/ goBackStored

SpecSurveyStored == InitSurveyStored /\ [][NextSurveyStored]_vars

(***************************************************************************)
(* Stored scores as the admin pages read them.  A stored value is a bare   *)
(* number, a {score, max, percentage} record, null, or absent.  A number   *)
(* is kept in quarters (quarters = 10 is 2.5), which binary64 holds and    *)
(* scales exactly.                                                         *)
(***************************************************************************)
Number(quarters) == [type |-> "number", quarters |-> quarters, percentage |-> 0]

Percent(percentage) == [type |-> "object", quarters |-> 0, percentage |-> percentage]

Undefined == [type |-> "undefined", quarters |-> 0, percentage |-> 0]

Null == [type |-> "null", quarters |-> 0, percentage |-> 0]

\* a stored value of another shape: a numeric string such as "3" (in quarters,
\* like a number), and an object without a percentage field such as {score, max}
Text(quarters) == [type |-> "string", quarters |-> quarters, percentage |-> 0]

Shapeless == [type |-> "record", quarters |-> 0, percentage |-> 0]

\* the number NaN, written as an integer no score, percentage or gap takes
NaN == 0 - 1000000

\* toPercentage without its {percentage} branch: every object is scaled like
\* a bare number
toPercentageScaleOnly(score) ==
  IF score.type \in {"undefined", "null"} THEN <<>>
  ELSE IF score.type = "object" THEN <<RoundDiv(score.percentage * 100, ScaleMax)>>
  ELSE IF score.type = "record" THEN <<NaN>>
  ELSE <<RoundDiv(score.quarters * 100, 4 * ScaleMax)>>

\* toPercentage returning 0 where it returns null
toPercentageNullAsZero(score) ==
  IF score.type \in {"undefined", "null"} THEN <<0>>
  ELSE IF score.type = "object" THEN <<score.percentage>>
  ELSE IF score.type = "record" THEN <<NaN>>
  ELSE <<RoundDiv(score.quarters * 100, 4 * ScaleMax)>>

\* toPercentage: <<>> is null, <<p>> the number p.  Whatever is neither
\* null nor an object with a percentage reaches Math.round((score / 4) * 100):
\* a numeric string is converted to its number, an object to NaN.
toPercentage(score) ==
  IF score.type \in {"undefined", "null"} THEN <<>>
  ELSE IF score.type = "object" THEN <<score.percentage>>
  ELSE IF score.type = "record" THEN <<NaN>>
  ELSE <<RoundDiv(score.quarters * 100, 4 * ScaleMax)>>

\* response detail page: getSectionValue, the score on the 1..4 scale in
\* hundredths; <<>> is null
getSectionValue(score) ==
  IF score.type \in {"undefined", "null"} THEN <<>>
  ELSE IF score.type = "number" THEN <<25 * score.quarters>>
  ELSE IF score.type = "object" THEN <<ScaleMax * score.percentage>>
  ELSE <<>>

\* r.section_scores?.[sectionKey]
SectionScoreOf(r, sectionKey) ==
  IF sectionKey \in DOMAIN r.section_scores THEN r.section_scores[sectionKey]
  ELSE Undefined

getSectionScore(r, sectionKey) == toPercentage(SectionScoreOf(r, sectionKey))

SECTIONS ==
  << [key |-> "work_changes",  name |-> "Work Changes"],
     [key |-> "finding_info",  name |-> "Finding Info"],
     [key |-> "speaking_up",   name |-> "Speaking Up"],
     [key |-> "cross_team",    name |-> "Cross Team"],
     [key |-> "leadership",    name |-> "Leadership"],
     [key |-> "during_change", name |-> "During Change"],
     [key |-> "culture",       name |-> "Culture"],
     [key |-> "overload",      name |-> "Overload"] >>

execRoles == {"Executive / C-Level", "Director / VP"}

staffRoles == {"Individual Contributor / Staff", "Intern / Entry Level"}

(***************************************************************************)
(* Aggregator and Insight Detector: calculateAggregates.                   *)
(***************************************************************************)
\* field || 'Unknown', without the default
CategoryLabelRaw(field) == field

\* field || 'Unknown'
CategoryLabel(field) == IF field = NULL \/ field = "" THEN "Unknown" ELSE field

\* the accumulator overwritten by each response instead of pushed to
PushedLast(values) ==
  LET kept == SelectSeq(values, LAMBDA v : v # <<>>)
  IN IF kept = <<>> THEN <<>> ELSE <<kept[Len(kept)][1]>>

\* the list an accumulator holds after the loop: values has one entry per
\* response, <<score>> where the response pushed and <<>> where it did not
Pushed(values) ==
  LET kept == SelectSeq(values, LAMBDA v : v # <<>>)
  IN [i \in 1..Len(kept) |-> kept[i][1]]

\* an average that truncates
AverageFloor(scores) == Sum(scores, Len(scores)) \div Len(scores)

\* Math.round(scores.reduce((a, b) => a + b, 0) / scores.length)
Average(scores) == RoundDiv(Sum(scores, Len(scores)), Len(scores))

\* the keys of an accumulator object, in insertion order: the labels in order
\* of first appearance
RECURSIVE KeyOrder(_, _, _)
KeyOrder(labels, i, acc) ==
  IF i > Len(labels) THEN acc
  ELSE IF \E j \in 1..Len(acc) : acc[j] = labels[i]
  THEN KeyOrder(labels, i + 1, acc)
  ELSE KeyOrder(labels, i + 1, Append(acc, labels[i]))

\* array.sort ascending by the integer keys[i] of items[i]; the sort is stable
SortAscending(items, keys) ==
  LET n == Len(items)
      pos(i) == Cardinality({j \in 1..n : keys[j] < keys[i]})
                + Cardinality({j \in 1..i : keys[j] = keys[i]})
  IN [p \in 1..n |-> items[CHOOSE i \in 1..n : pos(i) = p]]

SortDescending(items, keys) ==
  SortAscending(items, [i \in DOMAIN keys |-> 0 - keys[i]])

\* array.slice(0, n)
Slice(items, n) == SubSeq(items, 1, IF Len(items) < n THEN Len(items) ELSE n)

dept(r) == CategoryLabel(r.respondent_department)

role(r) == CategoryLabel(r.respondent_role)

depts(rs) == [i \in 1..Len(rs) |-> dept(rs[i])]

roles(rs) == [i \in 1..Len(rs) |-> role(rs[i])]

\* avgDeptSection / avgRoleSection: one entry per group label, holding one
\* averaged cell per section for which the group pushed a score; labels[i] is
\* the label of rs[i]
SectionAverages(rs, labels) ==
  [g \in Range(KeyOrder(labels, 1, <<>>)) |->
     LET cell(k) == Pushed([i \in 1..Len(rs) |->
                              IF labels[i] = g THEN getSectionScore(rs[i], k)
                              ELSE <<>>])
     IN [k \in {SECTIONS[i].key : i \in {j \in DOMAIN SECTIONS :
                                           cell(SECTIONS[j].key) # <<>>}} |->
           Average(cell(k))]]

\* avgDeptRole: per department label, one averaged overall cell per role label
\* that pushed an overall percentage
OverallAverages(rs) ==
  [g \in Range(KeyOrder(depts(rs), 1, <<>>)) |->
     LET cell(h) == Pushed([i \in 1..Len(rs) |->
                              IF dept(rs[i]) = g /\ role(rs[i]) = h
                              THEN toPercentage(rs[i].overall_score) ELSE <<>>])
     IN [h \in {x \in Range(KeyOrder(roles(rs), 1, <<>>)) : cell(x) # <<>>} |->
           Average(cell(h))]]

\* the problem areas with a section nobody scored ranked with score 0
ProblemAreasAbsentAsZero(rs) ==
  LET allScores(k) == Pushed([i \in 1..Len(rs) |-> getSectionScore(rs[i], k)])
      sectionAvgs == [i \in 1..Len(SECTIONS) |->
                        [section |-> SECTIONS[i].name,
                         score   |-> IF allScores(SECTIONS[i].key) = <<>> THEN 0
                                     ELSE Average(allScores(SECTIONS[i].key))]]
  IN Slice(SortAscending(sectionAvgs,
                         [i \in DOMAIN sectionAvgs |-> sectionAvgs[i].score]), 3)

\* sectionAvgs.sort(...).slice(0, 3)
ProblemAreas(rs) ==
  LET allScores(k) == Pushed([i \in 1..Len(rs) |-> getSectionScore(rs[i], k)])
      listed == SelectSeq(SECTIONS, LAMBDA s : allScores(s.key) # <<>>)
      sectionAvgs == [i \in 1..Len(listed) |->
                        [section |-> listed[i].name,
                         score   |-> Average(allScores(listed[i].key))]]
  IN Slice(SortAscending(sectionAvgs,
                         [i \in DOMAIN sectionAvgs |-> sectionAvgs[i].score]), 3)

\* Object.entries(avgDeptSection) reduced to the departments with a cell for
\* section key, as {dept, score}
DeptCells(rs, avgDeptSection, key) ==
  LET order == SelectSeq(KeyOrder(depts(rs), 1, <<>>),
                         LAMBDA g : key \in DOMAIN avgDeptSection[g])
  IN [i \in 1..Len(order) |-> [dept |-> order[i], score |-> avgDeptSection[order[i]][key]]]

\* the department gaps of the page's earlier revision: gap > 15
DeptGapsThreshold15(rs, avgDeptSection) ==
  LET deptScores(k) ==
        LET cells == DeptCells(rs, avgDeptSection, k)
        IN SortDescending(cells, [i \in DOMAIN cells |-> cells[i].score])
      gap(k) == deptScores(k)[1].score - deptScores(k)[Len(deptScores(k))].score
      found == SelectSeq(SECTIONS,
                 LAMBDA s : Len(deptScores(s.key)) >= 2 /\ gap(s.key) > 15)
      gaps == [i \in 1..Len(found) |->
                 [section  |-> found[i].name,
                  highDept |-> deptScores(found[i].key)[1].dept,
                  lowDept  |-> deptScores(found[i].key)[Len(deptScores(found[i].key))].dept,
                  gap      |-> gap(found[i].key)]]
  IN Slice(SortDescending(gaps, [i \in DOMAIN gaps |-> gaps[i].gap]), 5)

\* gaps.sort(...).slice(0, 5)
DeptGaps(rs, avgDeptSection) ==
  LET deptScores(k) ==
        LET cells == DeptCells(rs, avgDeptSection, k)
        IN SortDescending(cells, [i \in DOMAIN cells |-> cells[i].score])
      gap(k) == deptScores(k)[1].score - deptScores(k)[Len(deptScores(k))].score
      found == SelectSeq(SECTIONS,
                 LAMBDA s : Len(deptScores(s.key)) >= 2 /\ gap(s.key) > 10)
      gaps == [i \in 1..Len(found) |->
                 [section  |-> found[i].name,
                  highDept |-> deptScores(found[i].key)[1].dept,
                  lowDept  |-> deptScores(found[i].key)[Len(deptScores(found[i].key))].dept,
                  gap      |-> gap(found[i].key)]]
  IN Slice(SortDescending(gaps, [i \in DOMAIN gaps |-> gaps[i].gap]), 5)

\* the alerts of the page's earlier revision: score < 60
SpeakingUpAlertsThreshold60(rs, avgDeptSection) ==
  LET alerts == SelectSeq(DeptCells(rs, avgDeptSection, "speaking_up"),
                          LAMBDA x : x.score < 60)
  IN SortAscending(alerts, [i \in DOMAIN alerts |-> alerts[i].score])

SpeakingUpAlerts(rs, avgDeptSection) ==
  LET alerts == SelectSeq(DeptCells(rs, avgDeptSection, "speaking_up"),
                          LAMBDA x : x.score < 65)
  IN SortAscending(alerts, [i \in DOMAIN alerts |-> alerts[i].score])

\* the perception gaps with the difference taken staff minus exec
PerceptionGapsStaffMinusExec(rs) ==
  LET execScores(k)  == Pushed([i \in 1..Len(rs) |->
                                  IF rs[i].respondent_role \in execRoles
                                  THEN getSectionScore(rs[i], k) ELSE <<>>])
      staffScores(k) == Pushed([i \in 1..Len(rs) |->
                                  IF rs[i].respondent_role \in staffRoles
                                  THEN getSectionScore(rs[i], k) ELSE <<>>])
      gap(k) == Average(staffScores(k)) - Average(execScores(k))
      abs(x) == IF x < 0 THEN 0 - x ELSE x
      found == SelectSeq(SECTIONS,
                 LAMBDA s : /\ execScores(s.key) # <<>>
                            /\ staffScores(s.key) # <<>>
                            /\ abs(gap(s.key)) > 10)
      perceptionGaps == [i \in 1..Len(found) |->
                           [section    |-> found[i].name,
                            execScore  |-> Average(execScores(found[i].key)),
                            staffScore |-> Average(staffScores(found[i].key)),
                            gap        |-> gap(found[i].key)]]
  IN SortDescending(perceptionGaps,
                    [i \in DOMAIN perceptionGaps |-> abs(perceptionGaps[i].gap)])

\* the perception gaps sorted by the signed gap
PerceptionGapsSortedSigned(rs) ==
  LET execScores(k)  == Pushed([i \in 1..Len(rs) |->
                                  IF rs[i].respondent_role \in execRoles
                                  THEN getSectionScore(rs[i], k) ELSE <<>>])
      staffScores(k) == Pushed([i \in 1..Len(rs) |->
                                  IF rs[i].respondent_role \in staffRoles
                                  THEN getSectionScore(rs[i], k) ELSE <<>>])
      gap(k) == Average(execScores(k)) - Average(staffScores(k))
      abs(x) == IF x < 0 THEN 0 - x ELSE x
      found == SelectSeq(SECTIONS,
                 LAMBDA s : /\ execScores(s.key) # <<>>
                            /\ staffScores(s.key) # <<>>
                            /\ abs(gap(s.key)) > 10)
      perceptionGaps == [i \in 1..Len(found) |->
                           [section    |-> found[i].name,
                            execScore  |-> Average(execScores(found[i].key)),
                            staffScore |-> Average(staffScores(found[i].key)),
                            gap        |-> gap(found[i].key)]]
  IN SortDescending(perceptionGaps,
                    [i \in DOMAIN perceptionGaps |-> perceptionGaps[i].gap])

PerceptionGaps(rs) ==
  LET execScores(k)  == Pushed([i \in 1..Len(rs) |->
                                  IF rs[i].respondent_role \in execRoles
                                  THEN getSectionScore(rs[i], k) ELSE <<>>])
      staffScores(k) == Pushed([i \in 1..Len(rs) |->
                                  IF rs[i].respondent_role \in staffRoles
                                  THEN getSectionScore(rs[i], k) ELSE <<>>])
      gap(k) == Average(execScores(k)) - Average(staffScores(k))
      abs(x) == IF x < 0 THEN 0 - x ELSE x
      found == SelectSeq(SECTIONS,
                 LAMBDA s : /\ execScores(s.key) # <<>>
                            /\ staffScores(s.key) # <<>>
                            /\ abs(gap(s.key)) > 10)
      perceptionGaps == [i \in 1..Len(found) |->
                           [section    |-> found[i].name,
                            execScore  |-> Average(execScores(found[i].key)),
                            staffScore |-> Average(staffScores(found[i].key)),
                            gap        |-> gap(found[i].key)]]
  IN SortDescending(perceptionGaps,
                    [i \in DOMAIN perceptionGaps |-> abs(perceptionGaps[i].gap)])

\* everything calculateAggregates stores, computed from the responses it reads
Aggregates(rs) ==
  LET avgDeptSection == SectionAverages(rs, depts(rs))
  IN [deptSectionData  |-> avgDeptSection,
      roleSectionData  |-> SectionAverages(rs, roles(rs)),
      deptRoleData     |-> OverallAverages(rs),
      problemAreas     |-> ProblemAreas(rs),
      deptGaps         |-> DeptGaps(rs, avgDeptSection),
      speakingUpAlerts |-> SpeakingUpAlerts(rs, avgDeptSection),
      perceptionGap    |-> PerceptionGaps(rs)]

(***************************************************************************)
(* The response store as the admin pages find it, and the three pages.     *)
(***************************************************************************)
MaxResponses == 2

\* sections and overall score of a row the Response Scorer wrote
ScoredHigh ==
  [section_scores |-> [speaking_up |-> Percent(75), leadership |-> Percent(85)],
   overall_score  |-> Number(4 * 80)]

ScoredLow ==
  [section_scores |-> [speaking_up |-> Percent(50), leadership |-> Percent(30)],
   overall_score  |-> Number(4 * 40)]

\* a historical row: bare numbers on the 1..4 scale, one section only
Historical ==
  [section_scores |-> [speaking_up |-> Number(10)],
   overall_score  |-> Number(10)]

Unscored == [section_scores |-> EmptyMap, overall_score |-> Null]

\* a row written by something else than the survey page: one section score
\* stored as the string "3", one stored as null
Misshapen ==
  [section_scores |-> [speaking_up |-> Text(12), leadership |-> Null],
   overall_score  |-> Number(4 * 60)]

\* rows the survey page wrote for a survey of seven scored sections
WideHigh ==
  [section_scores |->
     [work_changes |-> Percent(85), finding_info |-> Percent(85),
      speaking_up |-> Percent(85), cross_team |-> Percent(85),
      leadership |-> Percent(85), during_change |-> Percent(85),
      culture |-> Percent(90)],
   overall_score |-> Number(4 * 81)]

WideLow ==
  [section_scores |->
     [work_changes |-> Percent(55), finding_info |-> Percent(30),
      speaking_up |-> Percent(40), cross_team |-> Percent(51),
      leadership |-> Percent(50), during_change |-> Percent(70)],
   overall_score |-> Number(4 * 45)]

\* a row the survey page wrote for a respondent who scores speaking up higher
\* than the executives do
ScoredApart ==
  [section_scores |-> [speaking_up |-> Percent(100), leadership |-> Percent(70)],
   overall_score  |-> Number(4 * 85)]

Response(department, position, company, scores, completed_at) ==
  [respondent_department |-> department,
   respondent_role       |-> position,
   respondent_company    |-> company,
   section_scores        |-> scores.section_scores,
   overall_score         |-> scores.overall_score,
   completed_at          |-> completed_at]

\* the rows the store is filled from: completed rows of both generations,
\* rows with a missing (null or '') department, role or company, a completed
\* row without scores, one with a misshapen score, and abandoned rows
\* (completed_at null) that carry scores
ResponsePool ==
  { Response("Sales", "Executive / C-Level", "Acme", ScoredHigh, "2024-05-01"),
    Response("Sales", "Executive / C-Level", "Acme", ScoredLow, "2024-05-01"),
    Response("Sales", "Individual Contributor / Staff", "Acme", ScoredLow, "2024-05-01"),
    Response("Engineering", "Individual Contributor / Staff", NULL, Historical, "2024-05-01"),
    Response(NULL, "Executive / C-Level", "Acme", ScoredLow, "2024-05-01"),
    Response("Sales", NULL, "Globex", ScoredHigh, "2024-05-01"),
    Response("", "", "", Historical, "2024-05-01"),
    Response("Sales", "Executive / C-Level", "Acme", Unscored, "2024-05-01"),
    Response("Sales", "Executive / C-Level", "Acme", Misshapen, "2024-05-01"),
    Response("Sales", "Executive / C-Level", "Acme", ScoredHigh, NULL),
    Response(NULL, NULL, NULL, ScoredLow, NULL) }

ResponseTables == UNION {[1..n -> ResponsePool] : n \in 0..MaxResponses}

aggregateVars ==
  <<calcInput, deptSectionData, roleSectionData, deptRoleData, problemAreas,
    deptGaps, speakingUpAlerts, perceptionGap>>

dashboardVars == <<companies, departments, stats>>

InitAdmin ==
  /\ ttc_responses \in ResponseTables
  /\ adminPage \in {"analytics", "dashboard", "orgchart"}
  /\ AdminUnloaded
  /\ ttc_questions = <<>>
  /\ initPc = "pending"
  /\ loading = TRUE
  /\ step = "intro"
  /\ sections = <<>>
  /\ currentSectionIndex = 0
  /\ currentQuestionIndex = 0
  /\ answers = EmptyMap
  /\ openResponses = EmptyMap
  /\ currentOpenResponse = ""
  /\ submitting = FALSE
  /\ insertPending = <<>>
  /\ route = "/admin"
  /\ responseId = <<>>
  /\ calls = <<>>
  /\ NoNormalizerCall

Reverse(seq) == [i \in 1..Len(seq) |-> seq[Len(seq) + 1 - i]]

\* a fetch without the completed_at filter
CompletedUnfiltered(table) == table

\* .not('completed_at', 'is', null)
Completed(table) == SelectSeq(table, LAMBDA r : r.completed_at # NULL)

\* [...new Set(values.filter(Boolean))]
Unique(values) ==
  KeyOrder(SelectSeq(values, LAMBDA v : v # NULL /\ v # ""), 1, <<>>)

\* the company options offered by the analytics and orgchart pages
companyOptions ==
  Unique([i \in 1..Len(responses) |-> responses[i].respondent_company])

filteredResponses ==
  IF companyFilter # ""
  THEN SelectSeq(responses, LAMBDA r : r.respondent_company = companyFilter)
  ELSE responses

\* toPercentage(r.overall_score) || 0: null, 0 and NaN give 0
PercentageOrZero(r) ==
  LET percentage == toPercentage(r.overall_score)
  IN IF percentage = <<>> \/ percentage = <<NaN>> THEN 0 ELSE percentage[1]

\* analytics: the average score shown in the page's header
avgOverall ==
  IF Len(filteredResponses) > 0
  THEN RoundDiv(Sum([i \in 1..Len(filteredResponses) |->
                       PercentageOrZero(filteredResponses[i])],
                    Len(filteredResponses)),
                Len(filteredResponses))
  ELSE 0

\* analytics: the mount effect's fetchData; rows arrive newest first
fetchData ==
  /\ adminPage = "analytics" /\ fetchPc = "pending"
  /\ fetchPc' = "done"
  /\ \/ /\ responses' = Reverse(Completed(ttc_responses))
        /\ effectPending' = TRUE
     \/ UNCHANGED <<responses, effectPending>>          \* data is null
  /\ loadingAdmin' = FALSE
  /\ UNCHANGED <<adminPage, companyFilter, aggregateVars, dashboardVars>>
  /\ UNCHANGED <<surveyVars, ttc_responses, normalizerVars>>

\* analytics: the effect on [filteredResponses, companyFilter].  With a company
\* selected every render filters a fresh array, so the state it sets makes the
\* effect due again.
calculateAggregates ==
  /\ adminPage = "analytics" /\ effectPending
  /\ IF Len(filteredResponses) > 0
     THEN LET result == Aggregates(filteredResponses)
          IN /\ calcInput' = filteredResponses
             /\ deptSectionData' = result.deptSectionData
             /\ roleSectionData' = result.roleSectionData
             /\ deptRoleData' = result.deptRoleData
             /\ problemAreas' = result.problemAreas
             /\ deptGaps' = result.deptGaps
             /\ speakingUpAlerts' = result.speakingUpAlerts
             /\ perceptionGap' = result.perceptionGap
             /\ effectPending' = (companyFilter # "")
     ELSE /\ effectPending' = FALSE
          /\ UNCHANGED aggregateVars
  /\ UNCHANGED <<adminPage, fetchPc, responses, loadingAdmin, companyFilter,
                 dashboardVars>>
  /\ UNCHANGED <<surveyVars, ttc_responses, normalizerVars>>

\* a company select whose change leaves the effect idle, as with an effect
\* that depends on [responses] alone
setCompanyFilterNoEffect(company) ==
  /\ adminPage \in {"analytics", "orgchart"} /\ ~loadingAdmin
  /\ company \in {""} \cup Range(companyOptions)
  /\ company # companyFilter
  /\ companyFilter' = company
  /\ UNCHANGED <<adminPage, fetchPc, responses, loadingAdmin, effectPending,
                 aggregateVars, dashboardVars>>
  /\ UNCHANGED <<surveyVars, ttc_responses, normalizerVars>>

\* analytics and orgchart: the company select's onChange
setCompanyFilter(company) ==
  /\ adminPage \in {"analytics", "orgchart"} /\ ~loadingAdmin
  /\ company \in {""} \cup Range(companyOptions)
  /\ company # companyFilter
  /\ companyFilter' = company
  /\ effectPending' = (adminPage = "analytics")
  /\ UNCHANGED <<adminPage, fetchPc, responses, loadingAdmin, aggregateVars,
                 dashboardVars>>
  /\ UNCHANGED <<surveyVars, ttc_responses, normalizerVars>>

\* r.overall_score || 0, in quarters
OverallOrZero(r) ==
  IF r.overall_score.type = "number" THEN r.overall_score.quarters ELSE 0

\* dashboard: fetchResponses; every row is listed, the average is taken over
\* the completed ones
fetchResponses ==
  /\ adminPage = "dashboard" /\ fetchPc = "pending"
  /\ fetchPc' = "done"
  /\ \/ LET data == Reverse(ttc_responses)
            completed == Completed(data)
            total == Sum([i \in 1..Len(completed) |-> OverallOrZero(completed[i])],
                         Len(completed))
        IN /\ responses' = data
           /\ companies' = Unique([i \in 1..Len(data) |-> data[i].respondent_company])
           /\ departments' = Unique([i \in 1..Len(data) |-> data[i].respondent_department])
           /\ stats' = [total     |-> Len(data),
                        completed |-> Len(completed),
                        avgScore  |-> IF Len(completed) > 0
                                      THEN RoundDiv(total, 4 * Len(completed))
                                      ELSE 0]
     \/ UNCHANGED <<responses, dashboardVars>>          \* data is null
  /\ loadingAdmin' = FALSE
  /\ UNCHANGED <<adminPage, companyFilter, effectPending, aggregateVars>>
  /\ UNCHANGED <<surveyVars, ttc_responses, normalizerVars>>

\* orgchart: the mount effect's fetchData
fetchDataOrgchart ==
  /\ adminPage = "orgchart" /\ fetchPc = "pending"
  /\ fetchPc' = "done"
  /\ \/ responses' = Completed(ttc_responses)
     \/ UNCHANGED responses                             \* data is null
  /\ loadingAdmin' = FALSE
  /\ UNCHANGED <<adminPage, companyFilter, effectPending, aggregateVars,
                 dashboardVars>>
  /\ UNCHANGED <<surveyVars, ttc_responses, normalizerVars>>

\* orgchart: the orgMap buildOrgData fills on every render
orgMap ==
  LET rs == filteredResponses
      members(g, h) == SelectSeq(rs, LAMBDA r : dept(r) = g /\ role(r) = h)
      entries(m, key) == SelectSeq(m, LAMBDA r : key \in DOMAIN r.section_scores)
      \* typeof val === 'number' ? val : 0
      numberOrZero(val) == IF val.type = "number" THEN val.quarters ELSE 0
  IN [g \in Range(KeyOrder(depts(rs), 1, <<>>)) |->
        [h \in {role(r) : r \in {x \in Range(rs) : dept(x) = g}} |->
           [scores |-> [i \in 1..Len(members(g, h)) |-> members(g, h)[i].overall_score],
            sectionScores |->
              [key \in UNION {DOMAIN r.section_scores : r \in Range(members(g, h))} |->
                 [i \in 1..Len(entries(members(g, h), key)) |->
                    numberOrZero(entries(members(g, h), key)[i].section_scores[key])]]]]]

NextAdmin ==
  \/ fetchData
  \/ calculateAggregates
  \/ \E company \in {"", "Acme", "Globex"} : setCompanyFilter(company)
  \/ fetchResponses
  \/ fetchDataOrgchart

SpecAdmin == InitAdmin /\ [][NextAdmin]_vars

(***************************************************************************)
(* The admin pages over a store of responses of the two role sets the      *)
(* perception gap compares.                                                *)
(***************************************************************************)
MaxRoleResponses == 3

RoleScores(speaking_up, leadership) ==
  [section_scores |-> [speaking_up |-> Percent(speaking_up),
                       leadership |-> Percent(leadership)],
   overall_score |-> Number(4 * speaking_up)]

\* an executive, two staff members whose mean ends in .5, a director with one
\* section only, and a manager, who belongs to neither role set
RolePool ==
  { Response("Sales", "Executive / C-Level", "Acme", RoleScores(61, 70), "2024-05-01"),
    Response("Sales", "Individual Contributor / Staff", "Acme", RoleScores(50, 50), "2024-05-01"),
    Response("Engineering", "Intern / Entry Level", "Acme", RoleScores(51, 90), "2024-05-01"),
    Response("Engineering", "Director / VP", "Globex",
             [section_scores |-> [speaking_up |-> Percent(30)],
              overall_score |-> Number(4 * 30)], "2024-05-01"),
    Response("Engineering", "Manager / Team Lead", "Globex", RoleScores(100, 0), "2024-05-01") }

RoleTables == UNION {[1..n -> RolePool] : n \in 0..MaxRoleResponses}

\* the admin pages unloaded over one of the given stores
InitAdminOver(tables) ==
  /\ ttc_responses \in tables
  /\ adminPage \in {"analytics", "dashboard", "orgchart"}
  /\ AdminUnloaded
  /\ ttc_questions = <<>>
  /\ initPc = "pending"
  /\ loading = TRUE
  /\ step = "intro"
  /\ sections = <<>>
  /\ currentSectionIndex = 0
  /\ currentQuestionIndex = 0
  /\ answers = EmptyMap
  /\ openResponses = EmptyMap
  /\ currentOpenResponse = ""
  /\ submitting = FALSE
  /\ insertPending = <<>>
  /\ route = "/admin"
  /\ responseId = <<>>
  /\ calls = <<>>
  /\ NoNormalizerCall

InitRoles == InitAdminOver(RoleTables)

SpecRoles == InitRoles /\ [][NextAdmin]_vars

(***************************************************************************)
(* The admin pages over a store of responses to a survey of many sections, *)
(* from two companies.                                                     *)
(***************************************************************************)
MaxSectionResponses == 2

\* two rows with seven scored sections, two rows with two, a historical row
\* with one, and an abandoned row
SectionPool ==
  { Response("Engineering", "Director / VP", "Globex", WideHigh, "2024-05-01"),
    Response("Sales", "Intern / Entry Level", "Globex", WideLow, "2024-05-01"),
    Response("Sales", "Executive / C-Level", "Acme", ScoredHigh, "2024-05-01"),
    Response("Engineering", "Individual Contributor / Staff", "Acme", ScoredApart, "2024-05-01"),
    Response("Engineering", "Individual Contributor / Staff", NULL, Historical, "2024-05-01"),
    Response("Sales", "Executive / C-Level", "Acme", ScoredLow, NULL) }

SectionTables == UNION {[1..n -> SectionPool] : n \in 0..MaxSectionResponses}

InitSections == InitAdminOver(SectionTables)

SpecSections == InitSections /\ [][NextAdmin]_vars

\* a run of the effect, by what it does to the page state besides the tables
\* and lists it fills: every calculateAggregates step is such a step, and no
\* step of another action is
effectRun ==
  /\ adminPage = "analytics" /\ effectPending
  /\ calcInput' = (IF Len(filteredResponses) > 0 THEN filteredResponses ELSE calcInput)
  /\ effectPending' = (Len(filteredResponses) > 0 /\ companyFilter # "")
  /\ UNCHANGED <<adminPage, fetchPc, responses, loadingAdmin, companyFilter>>

\* React runs an effect that is due after the render that made it due
SpecSectionsFair == SpecSections /\ WF_<<calcInput, effectPending>>(effectRun)

(***************************************************************************)
(* The Score Normalizer on its own: one call of toPercentage.              *)
(***************************************************************************)
StoredValues ==
  {Percent(p) : p \in 0..100} \cup {Number(q) : q \in 4..(4 * ScaleMax)}
  \cup {Undefined, Null}
  \cup {Text(q) : q \in 4..(4 * ScaleMax)} \cup {Shapeless}

InitNormalizer ==
  /\ stored \in StoredValues
  /\ normalized = <<>>
  /\ renormalized = <<>>
  /\ ttc_responses = <<>>
  /\ NoAdminPage
  /\ ttc_questions = <<>>
  /\ initPc = "pending"
  /\ loading = TRUE
  /\ step = "intro"
  /\ sections = <<>>
  /\ currentSectionIndex = 0
  /\ currentQuestionIndex = 0
  /\ answers = EmptyMap
  /\ openResponses = EmptyMap
  /\ currentOpenResponse = ""
  /\ submitting = FALSE
  /\ insertPending = <<>>
  /\ route = "/admin"
  /\ responseId = <<>>
  /\ calls = <<>>

\* a call toPercentage(stored)
callToPercentage ==
  /\ normalized = <<>>
  /\ normalized' = <<"toPercentage", toPercentage(stored)>>
  /\ UNCHANGED <<stored, renormalized, surveyVars, ttc_responses, adminVars>>

\* a call getSectionScore(r, sectionKey) on a response holding the stored
\* value as its speaking_up score
callGetSectionScore(sectionKey) ==
  /\ normalized = <<>>
  /\ stored.type # "undefined"
  /\ normalized' =
       <<sectionKey,
         getSectionScore([section_scores |-> [speaking_up |-> stored]], sectionKey)>>
  /\ UNCHANGED <<stored, renormalized, surveyVars, ttc_responses, adminVars>>

\* a call getSectionValue(stored) of the response detail page
callGetSectionValue ==
  /\ normalized = <<>>
  /\ normalized' = <<"getSectionValue", getSectionValue(stored)>>
  /\ UNCHANGED <<stored, renormalized, surveyVars, ttc_responses, adminVars>>

\* a percentage toPercentage returned, stored in {percentage} shape and handed
\* to toPercentage again
callToPercentageAgain ==
  /\ normalized # <<>> /\ normalized[1] = "toPercentage" /\ normalized[2] # <<>>
  /\ renormalized = <<>>
  /\ renormalized' = <<toPercentage(Percent(normalized[2][1]))>>
  /\ UNCHANGED <<stored, normalized, surveyVars, ttc_responses, adminVars>>

NextNormalizer ==
  \/ callToPercentage
  \/ \E sectionKey \in {"speaking_up", "leadership"} : callGetSectionScore(sectionKey)
  \/ callGetSectionValue
  \/ callToPercentageAgain

SpecNormalizer == InitNormalizer /\ [][NextNormalizer]_vars

(***************************************************************************)
(* Properties of the Response Scorer.                                      *)
(***************************************************************************)
RECURSIVE SumFn(_)
SumFn(f) ==
  IF DOMAIN f = {} THEN 0
  ELSE LET x == CHOOSE x \in DOMAIN f : TRUE
       IN f[x] + SumFn([y \in DOMAIN f \ {x} |-> f[y]])

\* every row submitSurvey has produced: stored, or in flight
SubmittedRows == Range(ttc_responses) \cup Range(insertPending)

\* the scale questions of section key that the row answers
AnsweredScale(key, row) ==
  {i \in DOMAIN ttc_questions :
     /\ ttc_questions[i].section_key = key
     /\ ttc_questions[i].question_type = "scale"
     /\ i \in DOMAIN row.answers}

WeightedScore(key, row) ==
  SumFn([i \in AnsweredScale(key, row) |-> row.answers[i] * ttc_questions[i].weight])

WeightedMax(key, row) ==
  SumFn([i \in AnsweredScale(key, row) |-> ScaleMax * ttc_questions[i].weight])

SectionKeysOf(table) == {table[i].section_key : i \in DOMAIN table}

AllSectionsEmpty(row) ==
  \A key \in SectionKeysOf(ttc_questions) : AnsweredScale(key, row) = {}

\* C1: every section score emitted by submitSurvey has score = sum(answer *
\* weight) and max = sum(4 * weight) over exactly the answered scale questions
\* of its section, and percentage = round(100 * score / max), within 0..100.
ClaimC1_SectionScore ==
  \A row \in SubmittedRows :
    \A key \in SectionKeysOf(ttc_questions) :
      AnsweredScale(key, row) # {} =>
        /\ key \in DOMAIN row.section_scores
        /\ row.section_scores[key].score = WeightedScore(key, row)
        /\ row.section_scores[key].max = WeightedMax(key, row)
        /\ row.section_scores[key].percentage =
             RoundDiv(100 * WeightedScore(key, row), WeightedMax(key, row))
        /\ row.section_scores[key].percentage \in 0..100

\* C2: the overall score stored at submission is round(100 * (sum of section
\* score) / (sum of section max)) over the sections that have a score.
ClaimC2_OverallScore ==
  \A row \in SubmittedRows :
    LET scored == DOMAIN row.section_scores
        total  == SumFn([key \in scored |-> row.section_scores[key].score])
        max    == SumFn([key \in scored |-> row.section_scores[key].max])
    IN max > 0 => row.overall_score = RoundDiv(100 * total, max)

\* C3: a section without an answered scale question has no entry in the
\* section-score map of the row; no entry has max 0.
ThmC3_EmptySectionOmitted ==
  \A row \in SubmittedRows :
    /\ \A key \in SectionKeysOf(ttc_questions) :
         AnsweredScale(key, row) = {} => key \notin DOMAIN row.section_scores
    /\ \A key \in DOMAIN row.section_scores : row.section_scores[key].max > 0

\* a stored row that scores one section and leaves out another, which has no
\* answered scale question
WitC3_EmptySectionOmitted ==
  \E row \in Range(ttc_responses) :
    /\ DOMAIN row.section_scores # {}
    /\ \E key \in SectionKeysOf(ttc_questions) :
         AnsweredScale(key, row) = {} /\ key \notin DOMAIN row.section_scores

\* C4: when every section lacks an answered scale question the submission
\* fails: no row is stored as completed, and no overall score 0 is persisted.
ClaimC4_InsufficientAnswers ==
  \A row \in Range(ttc_responses) :
    AllSectionsEmpty(row) => row.completed_at = NULL /\ row.overall_score # 0

(***************************************************************************)
(* Properties of the admin pages: Score Normalizer and Aggregator.         *)
(***************************************************************************)
\* a category field that is null, missing or ''
Missing(field) == field = NULL \/ field = ""

\* the group a response is reported under for a category field
GroupOf(field) == IF Missing(field) THEN "Unknown" ELSE field

\* c = round(sum / n), halves rounding up
IsRoundedMean(c, sum, n) == 2 * n * c <= 2 * sum + n /\ 2 * sum + n < 2 * n * (c + 1)

DepartmentsOf(rs) == [i \in DOMAIN rs |-> rs[i].respondent_department]

RolesOf(rs) == [i \in DOMAIN rs |-> rs[i].respondent_role]

\* a single-category table holds, for every group of rs and every section,
\* the rounded mean of the group's non-null normalized scores, and no cell
\* where the group has none
SectionTableOf(table, rs, fields) ==
  \A g \in {GroupOf(fields[i]) : i \in DOMAIN rs}, j \in DOMAIN SECTIONS :
    LET k == SECTIONS[j].key
        I == {i \in DOMAIN rs : /\ GroupOf(fields[i]) = g
                                /\ getSectionScore(rs[i], k) # <<>>}
    IN /\ g \in DOMAIN table
       /\ IF I = {} THEN k \notin DOMAIN table[g]
          ELSE /\ k \in DOMAIN table[g]
               /\ IsRoundedMean(table[g][k],
                                SumFn([i \in I |-> getSectionScore(rs[i], k)[1]]),
                                Cardinality(I))

\* C5: a response whose completed_at is null never contributes to an
\* aggregate table, an insight list or an average score: the analytics and
\* orgchart pages never hold such a row, calculateAggregates never reads one,
\* and the dashboard's completed count and average score are those of the
\* completed rows of the store alone.
ThmC5_IncompleteExcluded ==
  LET done == {i \in DOMAIN ttc_responses : ttc_responses[i].completed_at # NULL}
  IN /\ adminPage \in {"analytics", "orgchart"} =>
          \A i \in DOMAIN responses : responses[i].completed_at # NULL
     /\ \A i \in DOMAIN calcInput : calcInput[i].completed_at # NULL
     /\ adminPage = "dashboard" /\ stats.total > 0 =>
          /\ stats.completed = Cardinality(done)
          /\ IF done = {} THEN stats.avgScore = 0
             ELSE IsRoundedMean(stats.avgScore,
                    SumFn([i \in done |->
                      IF ttc_responses[i].overall_score.type = "number"
                      THEN ttc_responses[i].overall_score.quarters ELSE 0]),
                    4 * Cardinality(done))

\* the analytics page has aggregated a store that holds an abandoned row
WitC5_IncompleteExcluded ==
  /\ adminPage = "analytics" /\ calcInput # <<>>
  /\ \E i \in DOMAIN ttc_responses : ttc_responses[i].completed_at = NULL

\* C6: every cell of the department x section and role x section tables is
\* the rounded mean of the non-null normalized section percentages of the
\* group's responses, and a group without a score for a section has no cell
\* for it.
ThmC6_SectionCells ==
  /\ SectionTableOf(deptSectionData, calcInput, DepartmentsOf(calcInput))
  /\ SectionTableOf(roleSectionData, calcInput, RolesOf(calcInput))

\* a department whose two scores 50 and 63 average to 56.5, next to a role
\* that has responses but no leadership score
WitC6_SectionCells ==
  /\ \E g \in DOMAIN deptSectionData :
       /\ "speaking_up" \in DOMAIN deptSectionData[g]
       /\ deptSectionData[g]["speaking_up"] = 57
       /\ Cardinality({i \in DOMAIN calcInput :
                         GroupOf(calcInput[i].respondent_department) = g}) = 2
  /\ \E h \in DOMAIN roleSectionData : "leadership" \notin DOMAIN roleSectionData[h]

\* the overall percentage of a response, in quarters: the stored number when
\* the Response Scorer wrote it, the normalized value of a 1..4 number
OverallPercentQuarters(r) ==
  IF r.overall_score.quarters <= 4 * ScaleMax
  THEN 4 * toPercentage(r.overall_score)[1]
  ELSE r.overall_score.quarters

\* C7: every cell of the department x role table is the rounded mean of the
\* overall percentages of the responses of that pair.
ClaimC7_OverallCells ==
  \A i \in DOMAIN calcInput :
    LET g == GroupOf(calcInput[i].respondent_department)
        h == GroupOf(calcInput[i].respondent_role)
        I == {j \in DOMAIN calcInput :
                /\ GroupOf(calcInput[j].respondent_department) = g
                /\ GroupOf(calcInput[j].respondent_role) = h
                /\ calcInput[j].overall_score.type = "number"}
    IN I # {} =>
         /\ g \in DOMAIN deptRoleData
         /\ h \in DOMAIN deptRoleData[g]
         /\ IsRoundedMean(deptRoleData[g][h],
                          SumFn([j \in I |-> OverallPercentQuarters(calcInput[j])]),
                          4 * Cardinality(I))

ThmC9_OrderIndependent ==
  \A p \in Permutations(DOMAIN calcInput) :
    LET shuffled == [i \in DOMAIN calcInput |-> calcInput[p[i]]]
    IN /\ SectionAverages(shuffled, depts(shuffled)) = deptSectionData
       /\ SectionAverages(shuffled, roles(shuffled)) = roleSectionData
       /\ OverallAverages(shuffled) = deptRoleData

\* two different responses of one department and role were aggregated, with
\* different speaking_up scores
WitC9_OrderIndependent ==
  \E i, j \in DOMAIN calcInput :
    /\ i < j
    /\ dept(calcInput[i]) = dept(calcInput[j])
    /\ role(calcInput[i]) = role(calcInput[j])
    /\ getSectionScore(calcInput[i], "speaking_up") # <<>>
    /\ getSectionScore(calcInput[j], "speaking_up") # <<>>
    /\ getSectionScore(calcInput[i], "speaking_up")
         # getSectionScore(calcInput[j], "speaking_up")

\* C10: toPercentage returns the percentage of a {percentage} value unchanged
\* and round((value / 4) * 100) for a bare number in 1..4; getSectionScore
\* returns the same for the section's stored value.
ThmC10_Normalize ==
  normalized # <<>> /\ normalized[1] \in {"toPercentage", "speaking_up"} =>
    /\ stored.type = "object" => normalized[2] = <<stored.percentage>>
    /\ stored.type = "number" =>
         /\ Len(normalized[2]) = 1
         /\ IsRoundedMean(normalized[2][1], 100 * stored.quarters, 4 * ScaleMax)

\* the bare number 2.5, whose 62.5 rounds up, has been normalized
WitC10_Normalize ==
  /\ normalized # <<>>
  /\ stored = Number(10)
  /\ normalized[2] = <<63>>

\* the stored value is null or absent
NoScore(value) == value.type \in {"undefined", "null"}

Malformed(value) == value.type \in {"string", "record"}

\* C12: no call of the normalizer on a malformed value returns: neither
\* toPercentage and getSectionScore of the analytics page nor getSectionValue of
\* the response detail page hands back a result (a number, NaN or null) for it.
ClaimC12_InvalidScoreShape == Malformed(stored) => normalized = <<>>

\* rs with every malformed section score taken out of its response
WellFormedOnly(rs) ==
  [i \in DOMAIN rs |->
     [rs[i] EXCEPT !.section_scores =
        [k \in {x \in DOMAIN rs[i].section_scores :
                  ~Malformed(rs[i].section_scores[x])} |->
           rs[i].section_scores[k]]]]

\* C13: a malformed stored score is left out of the aggregation: the tables
\* and insight lists are those computed from the well-formed scores alone.
ClaimC13_MalformedExcluded ==
  calcInput # <<>> =>
    LET expected == Aggregates(WellFormedOnly(calcInput))
    IN /\ deptSectionData = expected.deptSectionData
       /\ roleSectionData = expected.roleSectionData
       /\ deptRoleData = expected.deptRoleData
       /\ problemAreas = expected.problemAreas
       /\ deptGaps = expected.deptGaps
       /\ speakingUpAlerts = expected.speakingUpAlerts
       /\ perceptionGap = expected.perceptionGap

\* C14: for a stored number or {percentage} value, the percentage toPercentage
\* returned, stored again as {percentage} and handed to toPercentage, comes
\* back unchanged.
ThmC14_Idempotent ==
  stored.type \in {"number", "object"} /\ renormalized # <<>> =>
    renormalized[1] = normalized[2]

\* the bare number 2.5 was normalized to 63 and 63 normalized again
WitC14_Idempotent ==
  /\ stored = Number(10)
  /\ normalized = <<"toPercentage", <<63>>>>
  /\ renormalized = <<<<63>>>>

\* the departments of the stored table that have a cell for section key
CellDepartments(key) ==
  {g \in DOMAIN deptSectionData : key \in DOMAIN deptSectionData[g]}

HighestCell(key) ==
  CHOOSE x \in {deptSectionData[g][key] : g \in CellDepartments(key)} :
    \A g \in CellDepartments(key) : deptSectionData[g][key] <= x

LowestCell(key) ==
  CHOOSE x \in {deptSectionData[g][key] : g \in CellDepartments(key)} :
    \A g \in CellDepartments(key) : deptSectionData[g][key] >= x

\* at least two departments have a cell for the section and the highest
\* exceeds the lowest by more than the threshold
GapThreshold == 10

HasDeptGap(key) ==
  /\ Cardinality(CellDepartments(key)) >= 2
  /\ HighestCell(key) - LowestCell(key) > GapThreshold

GapSections == {n \in DOMAIN SECTIONS : HasDeptGap(SECTIONS[n].key)}

\* C15 as stated: a department gap is listed for a section exactly when the
\* section has cells in at least two departments whose highest and lowest
\* differ by more than the threshold; the entry names a department holding
\* the highest cell, one holding the lowest, and their difference.
ClaimC15_DeptGapExactly ==
  /\ \A n \in DOMAIN SECTIONS :
       HasDeptGap(SECTIONS[n].key)
         <=> \E i \in DOMAIN deptGaps : deptGaps[i].section = SECTIONS[n].name
  /\ \A i \in DOMAIN deptGaps :
       \E n \in GapSections :
         LET k == SECTIONS[n].key
         IN /\ deptGaps[i].section = SECTIONS[n].name
            /\ deptGaps[i].gap = HighestCell(k) - LowestCell(k)
            /\ deptGaps[i].highDept \in CellDepartments(k)
            /\ deptSectionData[deptGaps[i].highDept][k] = HighestCell(k)
            /\ deptGaps[i].lowDept \in CellDepartments(k)
            /\ deptSectionData[deptGaps[i].lowDept][k] = LowestCell(k)

\* C15 with the cap: the list holds the sections with such a gap, largest gap
\* first, cut after five; a section with a gap is missing from it only when
\* five sections with a gap at least as large are listed. Every entry names a
\* department holding the highest cell, one holding the lowest, and their
\* difference.
ThmC15_DeptGapCapped ==
  /\ Len(deptGaps) = (IF Cardinality(GapSections) < 5 THEN Cardinality(GapSections) ELSE 5)
  /\ \A i, j \in DOMAIN deptGaps :
       /\ i < j => deptGaps[i].gap >= deptGaps[j].gap
       /\ i # j => deptGaps[i].section # deptGaps[j].section
  /\ \A i \in DOMAIN deptGaps :
       \E n \in GapSections :
         LET k == SECTIONS[n].key
         IN /\ deptGaps[i].section = SECTIONS[n].name
            /\ deptGaps[i].gap = HighestCell(k) - LowestCell(k)
            /\ deptGaps[i].highDept \in CellDepartments(k)
            /\ deptSectionData[deptGaps[i].highDept][k] = HighestCell(k)
            /\ deptGaps[i].lowDept \in CellDepartments(k)
            /\ deptSectionData[deptGaps[i].lowDept][k] = LowestCell(k)
  /\ \A n \in GapSections :
       (\A i \in DOMAIN deptGaps : deptGaps[i].section # SECTIONS[n].name) =>
         /\ Len(deptGaps) = 5
         /\ \A i \in DOMAIN deptGaps :
              deptGaps[i].gap >= HighestCell(SECTIONS[n].key) - LowestCell(SECTIONS[n].key)

\* two departments with cells 40 and 85 for Speaking Up are listed with gap
\* 45, and of six sections with a gap the one with the smallest gap is cut
WitC15_DeptGapCapped ==
  /\ Cardinality(GapSections) = 6
  /\ Len(deptGaps) = 5
  /\ \E i \in DOMAIN deptGaps :
       deptGaps[i] = [section |-> "Speaking Up", highDept |-> "Engineering",
                      lowDept |-> "Sales", gap |-> 45]
  /\ \A i \in DOMAIN deptGaps : deptGaps[i].section # "During Change"

\* the responses calculateAggregates read that belong to the role set and have
\* a score for section key
RoleSetScored(roleSet, key) ==
  {i \in DOMAIN calcInput :
     /\ calcInput[i].respondent_role \in roleSet
     /\ getSectionScore(calcInput[i], key) # <<>>}

RoleSetSum(roleSet, key) ==
  SumFn([i \in RoleSetScored(roleSet, key) |-> getSectionScore(calcInput[i], key)[1]])

\* the mean of the role set's scores for the section, rounded to an integer
RoleSetMean(roleSet, key) ==
  CHOOSE c \in 0..100 :
    IsRoundedMean(c, RoleSetSum(roleSet, key), Cardinality(RoleSetScored(roleSet, key)))

Abs(x) == IF x < 0 THEN 0 - x ELSE x

Scored(key) == {i \in DOMAIN calcInput : getSectionScore(calcInput[i], key) # <<>>}

ScoredSum(key) == SumFn([i \in Scored(key) |-> getSectionScore(calcInput[i], key)[1]])

\* the section's average over all responses, rounded to an integer
SectionMean(key) ==
  CHOOSE c \in 0..100 : IsRoundedMean(c, ScoredSum(key), Cardinality(Scored(key)))

RankedSections == {n \in DOMAIN SECTIONS : Scored(SECTIONS[n].key) # {}}

SectionNamed(name) == CHOOSE n \in DOMAIN SECTIONS : SECTIONS[n].name = name

\* the plain average of section m is at most that of section n
MeanAtMost(m, n) ==
  ScoredSum(SECTIONS[m].key) * Cardinality(Scored(SECTIONS[n].key))
    <= ScoredSum(SECTIONS[n].key) * Cardinality(Scored(SECTIONS[m].key))

\* section m comes before section n in the page's ranking: lower rounded
\* average first, equal ones in the order of SECTIONS
RankedBefore(m, n) ==
  \/ SectionMean(SECTIONS[m].key) < SectionMean(SECTIONS[n].key)
  \/ SectionMean(SECTIONS[m].key) = SectionMean(SECTIONS[n].key) /\ m < n

\* C17 as stated, with the plain average sum / n of each section: the list
\* holds at most 3 sections, each scored by some response, in ascending order
\* of their averages, and no section left out has a lower average than a
\* listed one.
ClaimC17_LowestAverages ==
  /\ Len(problemAreas)
       = (IF Cardinality(RankedSections) < 3 THEN Cardinality(RankedSections) ELSE 3)
  /\ \A i \in DOMAIN problemAreas : SectionNamed(problemAreas[i].section) \in RankedSections
  /\ \A i, j \in DOMAIN problemAreas :
       i < j => MeanAtMost(SectionNamed(problemAreas[i].section),
                           SectionNamed(problemAreas[j].section))
  /\ \A n \in RankedSections :
       (\A i \in DOMAIN problemAreas : problemAreas[i].section # SECTIONS[n].name) =>
         \A i \in DOMAIN problemAreas :
           MeanAtMost(SectionNamed(problemAreas[i].section), n)

\* C17 with the averages rounded: the list holds the (at most 3) sections that
\* come first when the sections scored by some response are ranked by rounded
\* average ascending, equal ones in their configured order; each entry carries
\* that rounded average, and a section nobody scored is not listed.
ThmC17_LowestRoundedAverages ==
  /\ Len(problemAreas)
       = (IF Cardinality(RankedSections) < 3 THEN Cardinality(RankedSections) ELSE 3)
  /\ \A i \in DOMAIN problemAreas :
       /\ SectionNamed(problemAreas[i].section) \in RankedSections
       /\ problemAreas[i].score
            = SectionMean(SECTIONS[SectionNamed(problemAreas[i].section)].key)
  /\ \A i, j \in DOMAIN problemAreas :
       i < j => RankedBefore(SectionNamed(problemAreas[i].section),
                             SectionNamed(problemAreas[j].section))
  /\ \A n \in RankedSections :
       (\A i \in DOMAIN problemAreas : problemAreas[i].section # SECTIONS[n].name) =>
         \A i \in DOMAIN problemAreas :
           RankedBefore(SectionNamed(problemAreas[i].section), n)

\* seven sections were scored, Overload by nobody: the three lowest are listed
\* in ascending order and Cross Team (68) is listed before the cut while
\* Leadership (67.5, shown as 68) is not
WitC17_LowestRoundedAverages ==
  /\ Cardinality(RankedSections) = 7
  /\ problemAreas = << [section |-> "Finding Info", score |-> 58],
                       [section |-> "Speaking Up", score |-> 63],
                       [section |-> "Cross Team", score |-> 68] >>

AlertThreshold == 65

\* C18: the alert list names exactly the departments whose speaking_up cell is
\* defined and below the threshold, each once with its cell, in ascending
\* order of the cell; a department without a speaking_up cell is not listed.
ThmC18_SpeakingUpAlerts ==
  /\ {speakingUpAlerts[i].dept : i \in DOMAIN speakingUpAlerts}
       = {g \in CellDepartments("speaking_up") :
            deptSectionData[g]["speaking_up"] < AlertThreshold}
  /\ \A i \in DOMAIN speakingUpAlerts :
       speakingUpAlerts[i].score = deptSectionData[speakingUpAlerts[i].dept]["speaking_up"]
  /\ \A i, j \in DOMAIN speakingUpAlerts :
       i < j => /\ speakingUpAlerts[i].score <= speakingUpAlerts[j].score
                /\ speakingUpAlerts[i].dept # speakingUpAlerts[j].dept

\* Engineering (63) was aggregated before the department-less response (50)
\* and is listed after it
WitC18_SpeakingUpAlerts ==
  /\ Len(calcInput) = 2
  /\ calcInput[1].respondent_department = "Engineering"
  /\ speakingUpAlerts = << [dept |-> "Unknown", score |-> 50],
                           [dept |-> "Engineering", score |-> 63] >>

\* C19: the overall average a page shows is the rounded mean over the
\* responses that have an overall score: on the analytics page of their
\* normalized scores among the filtered responses, on the dashboard of their
\* stored scores among the completed rows; a response without a score does
\* not lower it.
ClaimC19_AbsentIsNoData ==
  /\ adminPage = "analytics" =>
       LET I == {i \in DOMAIN filteredResponses :
                   ~NoScore(filteredResponses[i].overall_score)}
       IN I # {} =>
            IsRoundedMean(avgOverall,
                          SumFn([i \in I |-> toPercentage(filteredResponses[i].overall_score)[1]]),
                          Cardinality(I))
  /\ adminPage = "dashboard" /\ fetchPc = "done" /\ responses # <<>> =>
       LET I == {i \in DOMAIN responses :
                   /\ responses[i].completed_at # NULL
                   /\ ~NoScore(responses[i].overall_score)}
       IN I # {} =>
            IsRoundedMean(stats.avgScore,
                          SumFn([i \in I |-> responses[i].overall_score.quarters]),
                          4 * Cardinality(I))

\* the tables and lists the analytics page holds are those of the responses
\* the current company filter selects
AggregatesCurrent ==
  LET current == Aggregates(filteredResponses)
  IN /\ deptSectionData = current.deptSectionData
     /\ roleSectionData = current.roleSectionData
     /\ deptRoleData = current.deptRoleData
     /\ problemAreas = current.problemAreas
     /\ deptGaps = current.deptGaps
     /\ speakingUpAlerts = current.speakingUpAlerts
     /\ perceptionGap = current.perceptionGap

AnalyticsLoaded == adminPage = "analytics" /\ fetchPc = "done"

\* C20: on the loaded analytics page, tables and lists that are not those of
\* the current filtered responses (after the load, after a change of the
\* company filter) become those of the current filtered responses; once no
\* effect is due, or the effect has run on the current filtered responses,
\* none computed for an earlier filter is held.
ThmC20_ReflectCurrentFilter ==
  /\ [](AnalyticsLoaded /\ ~effectPending => AggregatesCurrent)
  /\ [](AnalyticsLoaded /\ calcInput # <<>> /\ calcInput = filteredResponses
          => AggregatesCurrent)
  /\ (AnalyticsLoaded /\ ~AggregatesCurrent) ~> (AnalyticsLoaded /\ AggregatesCurrent)

\* a company was selected that leaves out one of the loaded responses, and
\* the page holds the aggregates of the selected company's response
WitC20_ReflectCurrentFilter ==
  /\ AnalyticsLoaded
  /\ companyFilter = "Globex"
  /\ Len(responses) = 2
  /\ Len(calcInput) = 1
  /\ calcInput = filteredResponses
  /\ AggregatesCurrent
  /\ deptSectionData # Aggregates(responses).deptSectionData

(***************************************************************************)
(* Properties of the readers of stored section scores.                     *)
(***************************************************************************)
\* what a stored section score denotes, in 1/1600 of the 1..4 scale's unit
\* times 4: the bare number 3 and the record with percentage 75 both give 1200
Denoted(value) ==
  IF value.type = "number" THEN 100 * value.quarters ELSE 16 * value.percentage

WellShaped(value) == value.type \in {"number", "object"}

\* the responses behind the orgchart node of department g and role h that
\* have an entry for section key
NodeEntries(g, h, key) ==
  SelectSeq(filteredResponses,
            LAMBDA r : dept(r) = g /\ role(r) = h /\ key \in DOMAIN r.section_scores)

\* C23: a bare 1..4 number and a {score, max, percentage} record denoting the
\* same value contribute the same amount wherever section scores are read,
\* and neither is ignored or replaced by 0: the analytics page reads either
\* as the percentage it denotes, and the orgchart pushes either to its node
\* as the value it denotes on the 1..4 scale.
ClaimC23_BothShapesSupported ==
  /\ adminPage = "analytics" /\ fetchPc = "done" =>
       \A i \in DOMAIN responses : \A key \in DOMAIN responses[i].section_scores :
         LET value == responses[i].section_scores[key]
         IN WellShaped(value) =>
              getSectionScore(responses[i], key) = <<RoundDiv(Denoted(value), 16)>>
  /\ adminPage = "orgchart" /\ fetchPc = "done" =>
       \A g \in DOMAIN orgMap : \A h \in DOMAIN orgMap[g] :
         \A key \in DOMAIN orgMap[g][h].sectionScores :
           \A i \in DOMAIN NodeEntries(g, h, key) :
             LET value == NodeEntries(g, h, key)[i].section_scores[key]
             IN WellShaped(value) =>
                  100 * orgMap[g][h].sectionScores[key][i] = Denoted(value)

\* C24: the department-gap findings are ordered by gap descending and are at
\* most 5; the perception-gap findings are ordered by absolute gap
\* descending.
ThmC24_FindingsOrdered ==
  /\ Len(deptGaps) <= 5
  /\ \A i, j \in DOMAIN deptGaps : i < j => deptGaps[i].gap >= deptGaps[j].gap
  /\ \A i, j \in DOMAIN perceptionGap :
       i < j => Abs(perceptionGap[i].gap) >= Abs(perceptionGap[j].gap)

\* six sections have a department gap and a perception gap: the five
\* department findings start with the largest, found for the second section,
\* and end with the fifth largest, found for the first; the six perception
\* findings run from 55 to 15
WitC24_FindingsOrdered ==
  /\ Len(deptGaps) = 5
  /\ Cardinality(GapSections) = 6
  /\ deptGaps[1].section = "Finding Info" /\ deptGaps[1].gap = 55
  /\ deptGaps[5].section = "Work Changes" /\ deptGaps[5].gap = 30
  /\ Len(perceptionGap) = 6
  /\ perceptionGap[1].section = "Finding Info" /\ perceptionGap[1].gap = 55
  /\ perceptionGap[6].section = "During Change" /\ perceptionGap[6].gap = 15

\* a row as submitSurvey scores it: every section score a record with a
\* percentage in 0..100, the overall score an integer in 0..100
ScorerWritten(r) ==
  /\ r.overall_score.type = "number"
  /\ r.overall_score.quarters % 4 = 0
  /\ r.overall_score.quarters \div 4 \in 0..100
  /\ \A key \in DOMAIN r.section_scores :
       /\ r.section_scores[key].type = "object"
       /\ r.section_scores[key].percentage \in 0..100

\* C25: when every aggregated response was scored by submitSurvey, every cell
\* of the department x section, role x section and department x role tables,
\* every problem-area score and the displayed overall average lie in 0..100.
ClaimC25_CellsInRange ==
  (/\ AnalyticsLoaded
   /\ calcInput # <<>>
   /\ calcInput = filteredResponses
   /\ \A i \in DOMAIN calcInput : ScorerWritten(calcInput[i]))
  => /\ \A g \in DOMAIN deptSectionData : \A k \in DOMAIN deptSectionData[g] :
          deptSectionData[g][k] \in 0..100
     /\ \A h \in DOMAIN roleSectionData : \A k \in DOMAIN roleSectionData[h] :
          roleSectionData[h][k] \in 0..100
     /\ \A g \in DOMAIN deptRoleData : \A h \in DOMAIN deptRoleData[g] :
          deptRoleData[g][h] \in 0..100
     /\ \A i \in DOMAIN problemAreas : problemAreas[i].score \in 0..100
     /\ avgOverall \in 0..100

\* C26: on the loaded analytics page a run of the aggregation leaves none
\* due: calculateAggregates is triggered again only by a change of the
\* responses or of the company filter, so that after the load and after a
\* filter change the page recomputes finitely often and comes to rest.
ClaimC26_Quiescent ==
  [][(AnalyticsLoaded /\ effectRun) => ~effectPending']_vars

\* the insight lists calculateAggregates computes from the responses it read
\* taken in the order p
InsightsOf(p) ==
  LET shuffled == [i \in DOMAIN calcInput |-> calcInput[p[i]]]
      again == Aggregates(shuffled)
  IN [problemAreas     |-> again.problemAreas,
      deptGaps         |-> again.deptGaps,
      speakingUpAlerts |-> again.speakingUpAlerts,
      perceptionGap    |-> again.perceptionGap]

\* C28: the insight lists do not depend on the order of the responses:
\* calculateAggregates run on any reordering of the responses it read yields
\* the problem areas, department gaps (with the same departments named high
\* and low), speaking-up alerts and perception gaps it stored, also when
\* scores are equal.
ClaimC28_InsightsOrderIndependent ==
  calcInput # <<>> =>
    \A p \in Permutations(DOMAIN calcInput) :
      InsightsOf(p) = [problemAreas     |-> problemAreas,
                       deptGaps         |-> deptGaps,
                       speakingUpAlerts |-> speakingUpAlerts,
                       perceptionGap    |-> perceptionGap]

(***************************************************************************)
(* Properties of the survey page's flow.                                   *)
(***************************************************************************)
\* the survey page is at the last question of the last section
AtLastQuestion ==
  /\ sections # <<>>
  /\ currentSectionIndex = Len(sections) - 1
  /\ currentQuestionIndex = Len(sections[Len(sections)].questions) - 1

\* C30: a step in which the insert submitSurvey awaits ends without a row
\* being stored leaves the saving spinner, keeps the answers and open
\* responses that were submitted and the position, and stays on the survey
\* page; /thank-you is shown only once the row is stored.
ThmC30_SaveFailureKeepsState ==
  /\ [](route = "/thank-you" => ttc_responses # <<>>)
  /\ [][(insertPending # <<>> /\ insertPending' = <<>> /\ ttc_responses' = ttc_responses)
          => /\ submitting /\ ~submitting'
             /\ answers' = answers /\ answers' = insertPending[1].answers
             /\ openResponses' = openResponses
             /\ openResponses' = insertPending[1].open_responses
             /\ currentSectionIndex' = currentSectionIndex
             /\ currentQuestionIndex' = currentQuestionIndex
             /\ AtLastQuestion'
             /\ route' = "survey"]_vars

\* a save has failed: the question form is shown again at the last question
\* of a survey of a scale and an open question, both answered, and no row is
\* stored
WitC30_SaveFailureKeepsState ==
  /\ SurveyShown /\ AtLastQuestion
  /\ insertPending = <<>>
  /\ ttc_responses = <<>>
  /\ currentQuestion.id \in DOMAIN answers \cup DOMAIN openResponses
  /\ answers # EmptyMap
  /\ \E id \in DOMAIN openResponses : openResponses[id] = "text"

\* the row a suspended handler's storage call is addressed to is completed
AddressesCompleted(k) ==
  /\ calls[k].responseId # <<>>
  /\ ttc_responses[calls[k].responseId[1]].completed_at # NULL

\* C21: a response row is frozen at completion: no step of the survey flow
\* applies an answers update or a completing update to a row whose
\* completed_at is set.
ClaimC21_FrozenAtCompletion ==
  [][\A k \in DOMAIN calls :
       AddressesCompleted(k) => ~(handleAnswerResumed(k) \/ submitSurveyResumed(k))]_vars

\* the ids of the survey's questions
QuestionIds == DOMAIN ttc_questions

\* C22: submitSurvey is invoked only by the answer to the last question of
\* the last section, and the answers it is given to score hold an answer to
\* every question.
ClaimC22_CompleteOnlyWhenAllAnswered ==
  \A k \in DOMAIN calls :
    calls[k].handler = "submitSurvey" =>
      /\ calls[k].currentSectionIndex = Len(sections) - 1
      /\ calls[k].currentQuestionIndex = Len(sections[Len(sections)].questions) - 1
      /\ QuestionIds \subseteq DOMAIN calls[k].newAnswers

\* C27: one survey session creates at most one response row and issues at
\* most one completing write: at most one submitSurvey is awaiting its
\* update, and none is once a row is completed.
ClaimC27_OneRowOneCompletion ==
  /\ Len(ttc_responses) <= 1
  /\ Cardinality({k \in DOMAIN calls : calls[k].handler = "submitSurvey"})
       + Cardinality({i \in DOMAIN ttc_responses :
                        ttc_responses[i].completed_at # NULL}) <= 1

\* C29: while the question form is up the position is in bounds, so that a
\* current question exists.
ClaimC29_PositionInBounds ==
  (~loading /\ step = "survey") =>
    /\ 0 <= currentSectionIndex /\ currentSectionIndex < Len(sections)
    /\ 0 <= currentQuestionIndex
    /\ currentQuestionIndex < Len(sections[currentSectionIndex + 1].questions)

====
